---- MODULE Spec2Model ----
(***************************************************************************)
(* A model of exchange_rate_pipeline.py: the retrying historical fetch,    *)
(* the single latest fetch, the orchestrator main() with its ordered       *)
(* gather, the record builder and the (year, month) partitioned writer.    *)
(*                                                                         *)
(* Representation.  A date string "YYYY-MM-DD" is the record [y, m, d] of  *)
(* its three fields; a datetime is a number of days (or seconds) since     *)
(* 1970-01-01; strptime / strftime / utcfromtimestamp are the calendar     *)
(* conversions between the two.  A float rate is an integer number of      *)
(* hundredths.  A JSON object is a record that lists the keys it holds in  *)
(* "fields"; its "rates" object is the sequence of its (currency, rate)    *)
(* members in document order.  Python's None result is NoData.             *)
(***************************************************************************)
EXTENDS Integers, Sequences, FiniteSets, TLC

VARIABLES
    caller,      \* the entry point that is running: "main", "fetch", "writer"
    pc,          \* position of the running entry point
    start_date,  \* main()'s start_date argument (NoDate when omitted)
    end_date,    \* main()'s end_date argument   (NoDate when omitted)
    save_path,   \* the directory handed to the writer
    tasks,       \* the fetch_exchange_rates coroutines, in creation order
    completed,   \* indices of the finished coroutines, in completion order
    log,         \* the GETs and sleeps of a directly called fetch, in order
    responses,   \* main()'s responses list
    latest,      \* the fetch_latest_exchange_rates call: GETs issued, status, result
    now,         \* the last reading of the UTC clock, epoch seconds
    all_data,    \* main()'s all_data rows
    ri,          \* how many responses the record builder has processed
    df,          \* the frame handed to save_to_parquet
    groups,      \* the groupby keys save_to_parquet still has to write
    dirs,        \* directories that exist
    files,       \* files that exist: path -> rows
    written,     \* paths written by the running/last save_to_parquet call
    given        \* per partition file: the rows of its key in the last
                 \* save_to_parquet call whose frame held that key

vars == <<caller, pc, start_date, end_date, save_path, tasks, completed, log,
          responses, latest, now, all_data, ri, df, groups, dirs, files,
          written, given>>

----------------------------------------------------------------------------
(* Bounds of the model *)

\* longest inclusive date range handed to main()
MaxDays == 2
\* largest retries argument of a direct fetch_exchange_rates call
MaxRetries == 7
\* longest frame handed to a direct save_to_parquet call
MaxRows == 2
\* number of consecutive days, from FirstDay on, main()'s dates are drawn from
DaySpan == 4

(* Program constants *)

\* def fetch_exchange_rates(session, date, retries=5)
DefaultRetries == 5
\* min(2**retry_count, 60)
BackoffCap == 60
BackoffBase == 2
DEFAULT_SAVE_PATH == "output"
API_VERSION == "v1"

SecondsPerDay == 86400

----------------------------------------------------------------------------
(* Calendar: the datetime conversions the program calls *)

Min(a, b) == IF a <= b THEN a ELSE b

RECURSIVE Pow(_, _)
Pow(b, n) == IF n = 0 THEN 1 ELSE b * Pow(b, n - 1)

NoDate == [y |-> 0, m |-> 0, d |-> 0]

\* datetime.strptime(s, "%Y-%m-%d"): days since 1970-01-01 of a date string
strptime(s) ==
    LET yy  == IF s.m <= 2 THEN s.y - 1 ELSE s.y
        era == yy \div 400
        yoe == yy - era * 400
        mp  == IF s.m > 2 THEN s.m - 3 ELSE s.m + 9
        doy == (153 * mp + 2) \div 5 + s.d - 1
        doe == yoe * 365 + yoe \div 4 - yoe \div 100 + doy
    IN  era * 146097 + doe - 719468

\* datetime.strftime("%Y-%m-%d"): the date string of a day number
strftime(n) ==
    LET z   == n + 719468
        era == z \div 146097
        doe == z - era * 146097
        yoe == (doe - doe \div 1460 + doe \div 36524 - doe \div 146096) \div 365
        doy == doe - (365 * yoe + yoe \div 4 - yoe \div 100)
        mp  == (5 * doy + 2) \div 153
        dd  == doy - (153 * mp + 2) \div 5 + 1
        mm  == IF mp < 10 THEN mp + 3 ELSE mp - 9
    IN  [y |-> IF mm <= 2 THEN yoe + era * 400 + 1 ELSE yoe + era * 400,
         m |-> mm, d |-> dd]

\* datetime.utcfromtimestamp(t).strftime("%Y-%m-%d")
utcfromtimestamp(t) == strftime(t \div SecondsPerDay)

DayNames == <<"Monday", "Tuesday", "Wednesday", "Thursday", "Friday",
              "Saturday", "Sunday">>

\* datetime.strptime(date_str, "%Y-%m-%d").strftime("%A")
DayOfWeek(s) == DayNames[((strptime(s) + 3) % 7) + 1]

\* datetime.utcnow().strftime("%Y-%m-%d %H:%M:%S")
FormatTime(t) == [date |-> utcfromtimestamp(t), second |-> t % SecondsPerDay]

----------------------------------------------------------------------------
(* The upstream API: what a GET can come back with *)

\* the try block raised (timeout, connection error, a body that is not JSON)
Exception == 0
\* no GET issued yet
NotYet == -1

\* statuses that are none of 200, 401, 429
OtherStatuses == {404, 500}

\* the result None
NoData == [kind |-> "none"]

Json(fields, base, timestamp, rates) ==
    [kind |-> "json", fields |-> fields, base |-> base,
     timestamp |-> timestamp, rates |-> rates]

\* the body the API sends for day n when nothing is missing
FullBody(n) ==
    Json({"base", "timestamp", "rates"}, "USD",
         n * SecondsPerDay + SecondsPerDay - 1,
         << <<"EUR", 112>>, <<"GBP", 85>> >>)

\* JSON bodies the API may send with a 200 for the day numbered n
Bodies(n) ==
    { FullBody(n),
      Json({"rates"}, "", 0, << <<"EUR", 112>> >>),
      Json({"base", "timestamp", "rates"}, "EUR", 0, << <<"USD", 89>> >>),
      Json({"base"}, "USD", 0, <<>>),
      Json({}, "", 0, <<>>) }

----------------------------------------------------------------------------
(* fetch_exchange_rates(session, date, retries) *)

\* a backoff that forgets the cap
UncappedBackoff(retry_count) == Pow(BackoffBase, retry_count)

\* exponential_backoff(retry_count)
exponential_backoff(retry_count) == Min(Pow(BackoffBase, retry_count), BackoffCap)

\* a coroutine fetch_exchange_rates(session, date, retries) before its first
\* GET; range(retries) is empty for retries <= 0 and the call returns None
NewTask(date, retries) ==
    [date |-> date, retries |-> retries, attempt |-> 0,
     tpc |-> IF retries > 0 THEN "get" ELSE "done", result |-> NoData]

\* the history kept for a directly called fetch: its GETs and its sleeps
Logged(events) ==
    log' = IF caller = "fetch" THEN log \o events ELSE log

\* a GET: n is the status the code acted on, or Exception when the try
\* block raised; http is the status that was received, if one was
GetEvent(attempt, status) ==
    [ev |-> "get", attempt |-> attempt, n |-> status, http |-> status]

\* a GET answered with status `http` whose handling raised
RaisedEvent(attempt, http) ==
    [ev |-> "get", attempt |-> attempt, n |-> Exception, http |-> http]

SleepEvent(attempt, delay) ==
    [ev |-> "sleep", attempt |-> attempt, n |-> delay, http |-> NotYet]

\* the coroutine returns `result` after a GET that came back with `status`;
\* a returned coroutine keeps its result and no local variable
Return(i, status, result) ==
    /\ tasks' = [tasks EXCEPT ![i].attempt = 0, ![i].result = result,
                              ![i].tpc = "done"]
    /\ completed' = Append(completed, i)
    /\ Logged(<< GetEvent(tasks[i].attempt, status) >>)

\* a backoff that is skipped when no attempt is left
BackoffUnlessLast(i, status) ==
    IF tasks[i].attempt + 1 < tasks[i].retries
    THEN /\ tasks' = [tasks EXCEPT ![i].tpc = "sleep"]
         /\ UNCHANGED completed
         /\ Logged(<< GetEvent(tasks[i].attempt, status),
                      SleepEvent(tasks[i].attempt,
                                 exponential_backoff(tasks[i].attempt)) >>)
    ELSE Return(i, status, NoData)

\* the coroutine enters asyncio.sleep(exponential_backoff(attempt))
Backoff(i, status) ==
    /\ tasks' = [tasks EXCEPT ![i].tpc = "sleep"]
    /\ UNCHANGED completed
    /\ Logged(<< GetEvent(tasks[i].attempt, status),
                 SleepEvent(tasks[i].attempt,
                            exponential_backoff(tasks[i].attempt)) >>)

Others == <<caller, pc, start_date, end_date, save_path, responses, latest, now,
            all_data, ri, df, groups, dirs, files, written, given>>

\* a 200 whose body is dropped
Get200Dropped(i, body) ==
    /\ tasks[i].tpc = "get"
    /\ Return(i, 200, NoData)
    /\ UNCHANGED Others

\* response.status == 200: return await response.json()
Get200(i, body) ==
    /\ tasks[i].tpc = "get"
    /\ Return(i, 200, body)
    /\ UNCHANGED Others

\* response.status == 200 and `await response.json()` raises (the body is
\* not JSON, or the connection breaks while it is read): the except branch
\* sleeps for the backoff delay
Get200Unreadable(i) ==
    /\ tasks[i].tpc = "get"
    /\ tasks' = [tasks EXCEPT ![i].tpc = "sleep"]
    /\ Logged(<< RaisedEvent(tasks[i].attempt, 200),
                 SleepEvent(tasks[i].attempt,
                            exponential_backoff(tasks[i].attempt)) >>)
    /\ UNCHANGED <<completed, Others>>

\* a 401 handled like a 429
Get401Retried(i) ==
    /\ tasks[i].tpc = "get"
    /\ Backoff(i, 401)
    /\ UNCHANGED Others

\* response.status == 401: return None
Get401(i) ==
    /\ tasks[i].tpc = "get"
    /\ Return(i, 401, NoData)
    /\ UNCHANGED Others

\* response.status == 429: sleep for the backoff delay
Get429(i) ==
    /\ tasks[i].tpc = "get"
    /\ Backoff(i, 429)
    /\ UNCHANGED Others

\* any other status: return None
GetOther(i, status) ==
    /\ tasks[i].tpc = "get"
    /\ Return(i, status, NoData)
    /\ UNCHANGED Others

\* an exception nothing catches: the coroutine raises
GetExceptionEscapes(i) ==
    /\ tasks[i].tpc = "get"
    /\ tasks' = [tasks EXCEPT ![i].tpc = "raised"]
    /\ Logged(<< GetEvent(tasks[i].attempt, Exception) >>)
    /\ UNCHANGED <<completed, Others>>

\* except Exception: sleep for the backoff delay
GetException(i) ==
    /\ tasks[i].tpc = "get"
    /\ Backoff(i, Exception)
    /\ UNCHANGED Others

\* a loop that runs one iteration too many
WakeOnceMore(i) ==
    /\ tasks[i].tpc = "sleep"
    /\ IF tasks[i].attempt + 1 <= tasks[i].retries
       THEN /\ tasks' = [tasks EXCEPT ![i].attempt = @ + 1, ![i].tpc = "get"]
            /\ UNCHANGED completed
       ELSE /\ tasks' = [tasks EXCEPT ![i].attempt = 0, ![i].tpc = "done",
                                      ![i].result = NoData]
            /\ completed' = Append(completed, i)
    /\ UNCHANGED <<log, Others>>

\* the sleep ends: the next iteration of `for attempt in range(retries)`,
\* or the final `return None` when the range is exhausted
Wake(i) ==
    /\ tasks[i].tpc = "sleep"
    /\ IF tasks[i].attempt + 1 < tasks[i].retries
       THEN /\ tasks' = [tasks EXCEPT ![i].attempt = @ + 1, ![i].tpc = "get"]
            /\ UNCHANGED completed
       ELSE /\ tasks' = [tasks EXCEPT ![i].attempt = 0, ![i].tpc = "done",
                                      ![i].result = NoData]
            /\ completed' = Append(completed, i)
    /\ UNCHANGED <<log, Others>>

----------------------------------------------------------------------------
(* A direct call fetch_exchange_rates(session, date, retries), as the test *)
(* suite makes it                                                          *)

\* the first day of the model's calendar, a Thursday before a month's end
FirstDay == strptime([y |-> 2024, m |-> 2, d |-> 29])

InitFetch ==
    /\ caller = "fetch"
    /\ pc = "call"
    /\ \E r \in 0..MaxRetries : tasks = << NewTask(strftime(FirstDay), r) >>
    /\ start_date = NoDate
    /\ end_date = NoDate
    /\ save_path = << DEFAULT_SAVE_PATH >>
    /\ completed = <<>>
    /\ log = <<>>
    /\ responses = <<>>
    /\ latest = [gets |-> 0, status |-> NotYet, result |-> NoData]
    /\ now = FirstDay * SecondsPerDay
    /\ all_data = <<>>
    /\ ri = 0
    /\ df = <<>>
    /\ groups = <<>>
    /\ dirs = {}
    /\ files = <<>>
    /\ written = <<>>
    /\ given = <<>>

NextFetch ==
    \/ \E i \in DOMAIN tasks :
          \E body \in Bodies(strptime(tasks[i].date)) : Get200(i, body)
    \/ \E i \in DOMAIN tasks : Get401(i)
    \/ \E i \in DOMAIN tasks : Get429(i)
    \/ \E i \in DOMAIN tasks : \E status \in OtherStatuses : GetOther(i, status)
    \/ \E i \in DOMAIN tasks : GetException(i)
    \/ \E i \in DOMAIN tasks : Get200Unreadable(i)
    \/ \E i \in DOMAIN tasks : Wake(i)

SpecFetch == InitFetch /\ [][NextFetch]_vars

\* the event loop resumes a coroutine whose GET or sleep has ended
FairSpecFetch == SpecFetch /\ WF_vars(NextFetch)

----------------------------------------------------------------------------
(* fetch_latest_exchange_rates(session) *)

MainRest == <<caller, start_date, end_date, save_path, tasks, completed, log,
              now, all_data, ri, df, groups, dirs, files, written, given>>

\* a latest fetch that tries again when it is rate limited
LatestRetriesOn429(status) ==
    /\ pc = "latest"
    /\ latest' = [gets |-> latest.gets + 1, status |-> status, result |-> NoData]
    /\ IF status = 429
       THEN UNCHANGED <<pc, responses>>
       ELSE /\ responses' = << NoData >>
            /\ pc' = "build"
    /\ UNCHANGED MainRest

\* response.status == 200: return await response.json()
LatestGet200(body) ==
    /\ pc = "latest"
    /\ latest' = [gets |-> latest.gets + 1, status |-> 200, result |-> body]
    /\ responses' = << body >>
    /\ pc' = "build"
    /\ UNCHANGED MainRest

\* any other status: log the error, return None
LatestGetOther(status) ==
    /\ pc = "latest"
    /\ latest' = [gets |-> latest.gets + 1, status |-> status, result |-> NoData]
    /\ responses' = << NoData >>
    /\ pc' = "build"
    /\ UNCHANGED MainRest

\* a latest fetch that catches what the GET raises and returns None
LatestExceptionAbsorbed ==
    /\ pc = "latest"
    /\ latest' = [gets |-> latest.gets + 1, status |-> Exception, result |-> NoData]
    /\ responses' = << NoData >>
    /\ pc' = "build"
    /\ UNCHANGED MainRest

\* the GET raises: nothing catches it, it leaves main()
LatestException ==
    /\ pc = "latest"
    /\ latest' = [gets |-> latest.gets + 1, status |-> Exception, result |-> NoData]
    /\ pc' = "crashed"
    /\ UNCHANGED <<responses, MainRest>>

----------------------------------------------------------------------------
(* main(start_date, end_date, save_path): the orchestrator *)

\* truthiness of an argument string: None and "" are falsy
Given(date) == date # NoDate

\* coroutines for the days between the two dates, whichever comes first
MakeTasksEitherOrder(first, last) ==
    LET lo == Min(strptime(first), strptime(last))
        hi == strptime(first) + strptime(last) - lo
    IN  [i \in 1..(hi - lo + 1) |-> NewTask(strftime(lo + (i - 1)), DefaultRetries)]

\* the list comprehension of fetch coroutines, one per day of the range
MakeTasks(first, last) ==
    [i \in 1..(strptime(last) - strptime(first) + 1) |->
        NewTask(strftime(strptime(first) + (i - 1)), DefaultRetries)]

\* results in the order the coroutines completed
ResultsAsCompleted == [k \in DOMAIN completed |-> tasks[completed[k]].result]

\* what asyncio.gather(*tasks) returns once every coroutine has returned
GatherResults == [i \in DOMAIN tasks |-> tasks[i].result]

\* a historical run started when only one of the two dates is given
StartHistoricalEither ==
    /\ caller = "main"
    /\ pc = "main"
    /\ Given(start_date) \/ Given(end_date)
    /\ tasks' = MakeTasks(IF Given(start_date) THEN start_date ELSE end_date,
                          IF Given(end_date) THEN end_date ELSE start_date)
    /\ pc' = "gather"
    /\ UNCHANGED <<caller, start_date, end_date, save_path, completed, log,
                   responses, latest, now, all_data, ri, df, groups, dirs,
                   files, written, given>>

\* if start_date and end_date: create the coroutines and await the gather
StartHistorical ==
    /\ caller = "main"
    /\ pc = "main"
    /\ Given(start_date) /\ Given(end_date)
    /\ tasks' = MakeTasks(start_date, end_date)
    /\ pc' = "gather"
    /\ UNCHANGED <<caller, start_date, end_date, save_path, completed, log,
                   responses, latest, now, all_data, ri, df, groups, dirs,
                   files, written, given>>

\* else: await fetch_latest_exchange_rates(session)
StartLatest ==
    /\ caller = "main"
    /\ pc = "main"
    /\ ~(Given(start_date) /\ Given(end_date))
    /\ pc' = "latest"
    /\ UNCHANGED <<caller, start_date, end_date, save_path, tasks, completed,
                   log, responses, latest, now, all_data, ri, df, groups, dirs,
                   files, written, given>>

\* a gather that returns as soon as one coroutine has returned
GatherFirstCompleted ==
    /\ pc = "gather"
    /\ tasks = <<>> \/ \E i \in DOMAIN tasks : tasks[i].tpc = "done"
    /\ responses' = GatherResults
    /\ pc' = "build"
    /\ UNCHANGED <<caller, start_date, end_date, save_path, tasks, completed,
                   log, latest, now, all_data, ri, df, groups, dirs, files,
                   written, given>>

\* a gather that gives up the batch when a coroutine comes back empty
GatherAbortsOnFailure ==
    /\ pc = "gather"
    /\ IF \E i \in DOMAIN tasks :
             tasks[i].tpc = "done" /\ tasks[i].result = NoData
       THEN /\ pc' = "crashed"
            /\ UNCHANGED responses
       ELSE /\ \A i \in DOMAIN tasks : tasks[i].tpc = "done"
            /\ responses' = GatherResults
            /\ pc' = "build"
    /\ UNCHANGED <<caller, start_date, end_date, save_path, tasks, completed,
                   log, latest, now, all_data, ri, df, groups, dirs, files,
                   written, given>>

\* asyncio.gather without return_exceptions: it raises as soon as a
\* coroutine has raised, and otherwise returns when all have returned
Gather ==
    /\ pc = "gather"
    /\ IF \E i \in DOMAIN tasks : tasks[i].tpc = "raised"
       THEN /\ pc' = "crashed"
            /\ UNCHANGED responses
       ELSE /\ \A i \in DOMAIN tasks : tasks[i].tpc = "done"
            /\ responses' = GatherResults
            /\ pc' = "build"
    /\ UNCHANGED <<caller, start_date, end_date, save_path, tasks, completed,
                   log, latest, now, all_data, ri, df, groups, dirs, files,
                   written, given>>

----------------------------------------------------------------------------
(* The record builder: the body of `for response in responses` *)

\* a digest of "{date}_{currency}" that leaves the rate out
DigestWithoutRate(date, currency, rate) == [sha256 |-> <<date, currency>>]

\* generate_id(date, currency, rate): the digest of "{date}_{currency}_{rate}"
generate_id(date, currency, rate) == [sha256 |-> <<date, currency, rate>>]

\* `if response`: None and the empty object are falsy
Truthy(response) == response.kind = "json" /\ response.fields # {}

\* `if timestamp`: a missing timestamp and the timestamp 0 are falsy
TimestampTruthy(response) ==
    "timestamp" \in response.fields /\ response.timestamp # 0

\* rows whose weekend flag knows Sunday only
BuildRowsSundayOnly(response, t1, t2) ==
    LET base_currency  == IF "base" \in response.fields
                          THEN response.base ELSE "USD"
        date_str       == IF TimestampTruthy(response)
                          THEN utcfromtimestamp(response.timestamp)
                          ELSE utcfromtimestamp(t2)
        rates          == IF "rates" \in response.fields
                          THEN response.rates ELSE <<>>
    IN  [k \in DOMAIN rates |->
            [id                 |-> generate_id(date_str, rates[k][1], rates[k][2]),
             date               |-> date_str,
             base_currency      |-> base_currency,
             currency           |-> rates[k][1],
             exchange_rate      |-> rates[k][2],
             retrieval_time     |-> FormatTime(t1),
             source_api_version |-> API_VERSION,
             day_of_week        |-> DayOfWeek(date_str),
             is_weekend         |-> DayOfWeek(date_str) = "Sunday",
             year               |-> date_str.y,
             month              |-> date_str.m]]

\* the rows one response adds to all_data; t1 and t2 are the readings of
\* utcnow() for retrieval_time and for the fallback date
BuildRows(response, t1, t2) ==
    LET base_currency  == IF "base" \in response.fields
                          THEN response.base ELSE "USD"
        retrieval_time == FormatTime(t1)
        date_str       == IF TimestampTruthy(response)
                          THEN utcfromtimestamp(response.timestamp)
                          ELSE utcfromtimestamp(t2)
        day_of_week    == DayOfWeek(date_str)
        is_weekend     == day_of_week \in {"Saturday", "Sunday"}
        rates          == IF "rates" \in response.fields
                          THEN response.rates ELSE <<>>
    IN  [k \in DOMAIN rates |->
            [id                 |-> generate_id(date_str, rates[k][1], rates[k][2]),
             date               |-> date_str,
             base_currency      |-> base_currency,
             currency           |-> rates[k][1],
             exchange_rate      |-> rates[k][2],
             retrieval_time     |-> retrieval_time,
             source_api_version |-> API_VERSION,
             day_of_week        |-> day_of_week,
             is_weekend         |-> is_weekend,
             year               |-> date_str.y,
             month              |-> date_str.m]]

\* the instants the UTC clock is read at: the last second of FirstDay and
\* the first second of the day after
Instants == {(FirstDay + 1) * SecondsPerDay - 1, (FirstDay + 1) * SecondsPerDay}

BuildRest == <<caller, start_date, end_date, save_path, tasks, completed, log,
               responses, latest, df, groups, dirs, files, written, given>>

\* one iteration of `for response in responses`
BuildResponse ==
    /\ pc = "build"
    /\ ri < Len(responses)
    /\ LET response == responses[ri + 1] IN
        IF Truthy(response)
        THEN \E t1, t2 \in Instants :
                /\ now <= t1 /\ t1 <= t2
                /\ TimestampTruthy(response) => t2 = t1
                /\ all_data' = all_data \o BuildRows(response, t1, t2)
                /\ now' = t2
        ELSE UNCHANGED <<all_data, now>>
    /\ ri' = ri + 1
    /\ UNCHANGED <<pc, BuildRest>>

\* the record of what the calls of save_to_parquet were given: `frame`
\* replaces, for each (year, month) it holds, what an earlier call gave
Handed(earlier, root, frame) ==
    LET path(row) == root \o << "year=" \o ToString(row.year),
                                "month=" \o ToString(row.month),
                                "exchange_rates.parquet" >>
        paths == {path(frame[k]) : k \in DOMAIN frame}
    IN  [p \in DOMAIN earlier \cup paths |->
            IF p \in paths
            THEN SelectSeq(frame, LAMBDA row : path(row) = p)
            ELSE earlier[p]]

\* a writer called whether or not there are rows
CallSaveAlways ==
    /\ pc = "build"
    /\ ri = Len(responses)
    /\ df' = all_data
    /\ given' = Handed(given, save_path, all_data)
    /\ pc' = "save"
    /\ UNCHANGED <<caller, start_date, end_date, save_path, tasks, completed,
                   log, responses, latest, now, all_data, ri, groups, dirs,
                   files, written>>

\* if all_data: build the frame and call save_to_parquet(df, save_path)
CallSave ==
    /\ pc = "build"
    /\ ri = Len(responses)
    /\ all_data # <<>>
    /\ df' = all_data
    /\ given' = Handed(given, save_path, all_data)
    /\ pc' = "save"
    /\ UNCHANGED <<caller, start_date, end_date, save_path, tasks, completed,
                   log, responses, latest, now, all_data, ri, groups, dirs,
                   files, written>>

\* else: logging.warning("No data retrieved.")
WarnNoData ==
    /\ pc = "build"
    /\ ri = Len(responses)
    /\ all_data = <<>>
    /\ pc' = "no_data"
    /\ UNCHANGED <<caller, start_date, end_date, save_path, tasks, completed,
                   log, responses, latest, now, all_data, ri, df, groups, dirs,
                   files, written, given>>

----------------------------------------------------------------------------
(* save_to_parquet(df, save_path): the partitioned writer *)
(* A path is the sequence of its components.                               *)

\* a mkdir that makes the last directory only
LeafOnly(path) == {path}

\* the directories mkdir(parents=True, exist_ok=True) makes sure exist
Prefixes(path) == {SubSeq(path, 1, k) : k \in 1..Len(path)}

\* the groupby key of a row
KeyOf(row) == <<row.year, row.month>>

KeyLess(a, b) == a[1] < b[1] \/ (a[1] = b[1] /\ a[2] < b[2])

RECURSIVE SortKeys(_)
SortKeys(S) ==
    IF S = {} THEN <<>>
    ELSE LET least == CHOOSE a \in S : \A b \in S \ {a} : KeyLess(a, b)
         IN  <<least>> \o SortKeys(S \ {least})

\* the keys df.groupby(["year", "month"]) iterates over, ascending
GroupKeys(frame) == SortKeys({KeyOf(frame[k]) : k \in DOMAIN frame})

\* the whole frame written for every group
WholeFrame(frame, key) == frame

\* the rows of a group, in frame order
GroupRows(frame, key) == SelectSeq(frame, LAMBDA row : KeyOf(row) = key)

\* Path(save_path) / f"year={year}" / f"month={month}"
PartitionDir(root, key) ==
    root \o << "year=" \o ToString(key[1]), "month=" \o ToString(key[2]) >>

PartitionFile(root, key) == PartitionDir(root, key) \o << "exchange_rates.parquet" >>

\* a write that appends to the file it finds
WriteTableAppend(fs, path, rows) ==
    [p \in DOMAIN fs \cup {path} |->
        IF p = path
        THEN (IF path \in DOMAIN fs THEN fs[path] \o rows ELSE rows)
        ELSE fs[p]]

\* pq.write_table(table, path): create or replace the file
WriteTable(fs, path, rows) ==
    [p \in DOMAIN fs \cup {path} |-> IF p = path THEN rows ELSE fs[p]]

SaveRest == <<caller, start_date, end_date, save_path, tasks, completed, log,
              responses, latest, now, all_data, ri, df, given>>

\* Path(save_path).mkdir(parents=True, exist_ok=True), then start the groupby
SaveMkdir ==
    /\ pc = "save"
    /\ dirs' = dirs \cup Prefixes(save_path)
    /\ groups' = GroupKeys(df)
    /\ written' = <<>>
    /\ pc' = "write"
    /\ UNCHANGED <<files, SaveRest>>

\* one iteration of the groupby loop: make the partition directory and
\* write the group's rows to its file
WriteGroup ==
    /\ pc = "write"
    /\ groups # <<>>
    /\ LET key == Head(groups) IN
        /\ dirs' = dirs \cup Prefixes(PartitionDir(save_path, key))
        /\ files' = WriteTable(files, PartitionFile(save_path, key),
                               GroupRows(df, key))
        /\ written' = Append(written, PartitionFile(save_path, key))
    /\ groups' = Tail(groups)
    /\ UNCHANGED <<pc, SaveRest>>

\* the loop is over: save_to_parquet returns to its caller
SaveReturn ==
    /\ pc = "write"
    /\ groups = <<>>
    /\ pc' = IF caller = "main" THEN "done" ELSE "idle"
    /\ UNCHANGED <<groups, dirs, files, written, SaveRest>>

----------------------------------------------------------------------------
(* The run of main() *)

\* the days the arguments are drawn from
Days == FirstDay .. (FirstDay + DaySpan - 1)

DateArgs == {NoDate} \cup {strftime(n) : n \in Days}

\* save_path = save_path or DEFAULT_SAVE_PATH
SavePathOr(arg) == IF arg = <<>> THEN << DEFAULT_SAVE_PATH >> ELSE arg

\* the --save-path arguments: omitted, or a nested directory
SavePathArgs == { <<>>, <<"data", "fx">> }

Init ==
    /\ caller = "main"
    /\ pc = "main"
    /\ start_date \in DateArgs
    /\ end_date \in DateArgs
    /\ (Given(start_date) /\ Given(end_date))
          => strptime(end_date) - strptime(start_date) + 1 <= MaxDays
    /\ \E arg \in SavePathArgs : save_path = SavePathOr(arg)
    /\ tasks = <<>>
    /\ completed = <<>>
    /\ log = <<>>
    /\ responses = <<>>
    /\ latest = [gets |-> 0, status |-> NotYet, result |-> NoData]
    /\ now = (FirstDay + 1) * SecondsPerDay - 1
    /\ all_data = <<>>
    /\ ri = 0
    /\ df = <<>>
    /\ groups = <<>>
    /\ dirs = {}
    /\ files = <<>>
    /\ written = <<>>
    /\ given = <<>>

\* the statuses fetch_latest_exchange_rates treats alike
NonOkStatuses == {401, 429} \cup OtherStatuses

Next ==
    \/ StartHistorical
    \/ StartLatest
    \/ NextFetch
    \/ Gather
    \/ \E body \in Bodies(now \div SecondsPerDay) : LatestGet200(body)
    \/ \E status \in NonOkStatuses : LatestGetOther(status)
    \/ LatestException
    \/ BuildResponse
    \/ CallSave
    \/ WarnNoData
    \/ SaveMkdir
    \/ WriteGroup
    \/ SaveReturn

Spec == Init /\ [][Next]_vars

----------------------------------------------------------------------------
(* Direct calls save_to_parquet(df, save_path), one after the other, as    *)
(* the test suite makes them                                               *)

\* rows of three partitions: two of 2024-02, one of 2024-03, one of 2025-02
WriterRows ==
    LET t == (FirstDay + 1) * SecondsPerDay IN
    { BuildRows(FullBody(FirstDay), t, t)[1],
      BuildRows(FullBody(FirstDay), t, t)[2],
      BuildRows(FullBody(FirstDay + 1), t, t)[1],
      BuildRows(FullBody(FirstDay + 365), t, t)[1] }

\* the frames handed to the writer: up to MaxRows rows, in any order
Frames == UNION { [1..n -> WriterRows] : n \in 0..MaxRows }

InitWriter ==
    /\ caller = "writer"
    /\ pc = "idle"
    /\ save_path = << "data", "fx" >>
    /\ start_date = NoDate
    /\ end_date = NoDate
    /\ tasks = <<>>
    /\ completed = <<>>
    /\ log = <<>>
    /\ responses = <<>>
    /\ latest = [gets |-> 0, status |-> NotYet, result |-> NoData]
    /\ now = (FirstDay + 1) * SecondsPerDay
    /\ all_data = <<>>
    /\ ri = 0
    /\ df = <<>>
    /\ groups = <<>>
    /\ dirs = {}
    /\ files = <<>>
    /\ written = <<>>
    /\ given = <<>>

\* save_to_parquet(frame, save_path) is called
DirectSave(frame) ==
    /\ caller = "writer"
    /\ pc = "idle"
    /\ df' = frame
    /\ given' = Handed(given, save_path, frame)
    /\ pc' = "save"
    /\ UNCHANGED <<caller, start_date, end_date, save_path, tasks, completed,
                   log, responses, latest, now, all_data, ri, groups, dirs,
                   files, written>>

NextWriter ==
    \/ \E frame \in Frames : DirectSave(frame)
    \/ SaveMkdir
    \/ WriteGroup
    \/ SaveReturn

SpecWriter == InitWriter /\ [][NextWriter]_vars

----------------------------------------------------------------------------
(* Properties of fetch_exchange_rates, over the history of a direct call *)

\* the GET events of the history, in order
Gets == SelectSeq(log, LAMBDA e : e.ev = "get")

\* the sleep events of the history, in order
Sleeps == SelectSeq(log, LAMBDA e : e.ev = "sleep")

Retryable(status) == status \in {429, Exception}

Terminal(status) == status \notin {200, 429, Exception}

IsGet(k, status) == log[k].ev = "get" /\ log[k].n = status

\* C2: a GET answered with 401 or with any status other than 200 and 429 is
\* the last event of the call: no GET and no sleep follows it, and the call
\* has returned no-data; a 401 at the first attempt ends the call after that
\* single GET, with no sleep at all.
TerminalStatusEndsCall ==
    \A k \in DOMAIN log :
        (log[k].ev = "get" /\ Terminal(log[k].n)) =>
            /\ k = Len(log)
            /\ tasks[1].tpc = "done"
            /\ tasks[1].result = NoData
            /\ Len(Gets) = log[k].attempt + 1
            /\ (log[k].attempt = 0 => (Len(log) = 1 /\ Sleeps = <<>>))

\* a 401 answers the third GET, after a 429 and an exception
TerminalStatusWitness ==
    /\ Len(log) = 5
    /\ IsGet(1, 429) /\ IsGet(3, Exception) /\ IsGet(5, 401)
    /\ tasks[1].tpc = "done"

\* C3: a 429 at attempt k is followed at once by a sleep of min(2^k, 60)
\* seconds (1 second at the first attempt); while k + 1 < retries the call
\* has not returned after that sleep and its next event is the GET of
\* attempt k + 1; and a 200 on that GET makes the call return its body.
RateLimitBackoff ==
    \A k \in DOMAIN log :
        IsGet(k, 429) =>
            LET a == log[k].attempt IN
            /\ k < Len(log)
            /\ log[k + 1] = SleepEvent(a, Min(Pow(2, a), 60))
            /\ (a = 0 => log[k + 1].n = 1)
            /\ (a + 1 < tasks[1].retries) =>
                  IF k + 2 <= Len(log)
                  THEN /\ log[k + 2].ev = "get"
                       /\ log[k + 2].attempt = a + 1
                       /\ log[k + 2].n = 200 =>
                             /\ tasks[1].tpc = "done"
                             /\ tasks[1].result \in Bodies(strptime(tasks[1].date))
                  ELSE tasks[1].tpc \in {"sleep", "get"}
            /\ (a + 1 >= tasks[1].retries) => k + 1 = Len(log)

\* a 429, the sleep of one second, then a 200 whose body is returned
RateLimitWitness ==
    /\ Len(log) = 3
    /\ IsGet(1, 429)
    /\ log[2] = SleepEvent(0, 1)
    /\ IsGet(3, 200)
    /\ tasks[1].result = FullBody(strptime(tasks[1].date))

\* C4: an exception at attempt k is followed at once by a sleep of
\* min(2^k, 60) seconds; 429s and exceptions advance one attempt counter
\* (the j-th GET of a call is attempt j - 1), so that a call issues at most
\* `retries` GETs whatever the mix; and no coroutine ever raises.
ExceptionSharesRetryBudget ==
    /\ \A k \in DOMAIN log :
          IsGet(k, Exception) =>
              /\ k < Len(log)
              /\ log[k + 1] = SleepEvent(log[k].attempt,
                                         Min(Pow(2, log[k].attempt), 60))
    /\ \A j \in DOMAIN Gets : Gets[j].attempt = j - 1
    /\ \A j \in DOMAIN Gets : j < Len(Gets) => Retryable(Gets[j].n)
    /\ Len(Gets) <= tasks[1].retries
    /\ \A i \in DOMAIN tasks : tasks[i].tpc \in {"get", "sleep", "done"}

\* a budget of three used up by a 429, an exception and a 429
MixedBudgetWitness ==
    /\ tasks[1].retries = 3
    /\ Len(log) = 6
    /\ IsGet(1, 429) /\ IsGet(3, Exception) /\ IsGet(5, 429)
    /\ tasks[1].tpc = "done"
    /\ tasks[1].result = NoData

\* C5: every call returns; it never issues more than `retries` GETs; and a
\* call whose `retries` GETs all ended in a 429 or an exception has returned
\* no-data once its last sleep is over.
FetchTerminates ==
    /\ <>(tasks[1].tpc = "done")
    /\ [](Len(Gets) <= tasks[1].retries)
    /\ []((/\ Len(Gets) = tasks[1].retries
           /\ \A j \in DOMAIN Gets : Retryable(Gets[j].n)
           /\ tasks[1].tpc # "sleep")
          => (tasks[1].tpc = "done" /\ tasks[1].result = NoData))

\* seven GETs, each rate limited or raising, and the call has returned
ExhaustedWitness ==
    /\ tasks[1].retries = MaxRetries
    /\ Len(Gets) = MaxRetries
    /\ \A j \in DOMAIN Gets : Retryable(Gets[j].n)
    /\ tasks[1].tpc = "done"
    /\ tasks[1].result = NoData

----------------------------------------------------------------------------
(* Properties of main(): the orchestrator *)

Historical == Given(start_date) /\ Given(end_date)

\* the number of days of the inclusive range start_date..end_date
RangeDays == strptime(end_date) - strptime(start_date) + 1

Gathered == pc \in {"build", "save", "write", "done", "no_data"}

\* C1: for a range of N >= 1 days, N coroutines are created, the i-th for
\* the date start_date + (i - 1) days, and once gathered the responses list
\* has N slots, slot i holding what the coroutine of that date returned,
\* whatever the order the coroutines completed in.
GatherKeepsDateOrder ==
    (Historical /\ RangeDays >= 1 /\ pc # "main") =>
        /\ Len(tasks) = RangeDays
        /\ \A i \in 1..RangeDays :
              tasks[i].date = strftime(strptime(start_date) + (i - 1))
        /\ Gathered =>
              /\ Len(responses) = RangeDays
              /\ \A i \in 1..RangeDays :
                    \A j \in DOMAIN tasks :
                        tasks[j].date = strftime(strptime(start_date) + (i - 1))
                            => responses[i] = tasks[j].result

\* the later date completed first, with a body, and the earlier date failed
OutOfOrderWitness ==
    /\ Gathered
    /\ RangeDays = 2
    /\ completed = <<2, 1>>
    /\ responses[1] = NoData
    /\ responses[2] = FullBody(strptime(end_date))

\* a step in which coroutine i returns no-data
Fails(i) ==
    /\ tasks[i].tpc \in {"get", "sleep"}
    /\ tasks'[i].tpc = "done"
    /\ tasks'[i].result = NoData

\* C6: in a historical batch no coroutine ever raises or is cancelled and
\* main() never crashes; the step in which one coroutine fails leaves every
\* sibling and main() where they were; main() goes past the gather only
\* when every coroutine has returned, and then every slot holds what its own
\* coroutine returned (no-data for a failed one).
FailureStaysLocal ==
    /\ [](Historical =>
            /\ pc # "crashed"
            /\ \A i \in DOMAIN tasks : tasks[i].tpc \in {"get", "sleep", "done"}
            /\ Gathered =>
                  /\ DOMAIN responses = DOMAIN tasks
                  /\ \A i \in DOMAIN tasks :
                        /\ tasks[i].tpc = "done"
                        /\ responses[i] = tasks[i].result)
    /\ [][\A i \in DOMAIN tasks :
            (i \in DOMAIN tasks' /\ Fails(i)) =>
                /\ pc' = pc
                /\ DOMAIN tasks' = DOMAIN tasks
                /\ \A j \in DOMAIN tasks \ {i} : tasks'[j] = tasks[j]]_vars

\* the first date failed first; its sibling completed later, with a body
SiblingSurvivesWitness ==
    /\ Gathered
    /\ RangeDays = 2
    /\ completed = <<1, 2>>
    /\ responses[1] = NoData
    /\ responses[2] = FullBody(strptime(end_date))

\* C7: when a date is omitted no fetch coroutine is ever created, at most
\* one latest GET is issued, and once the latest fetch has returned exactly
\* one GET was issued and the responses list has one element; when both
\* dates are given no latest fetch is ever made.
ModeIsExclusive ==
    /\ ~Historical =>
          /\ tasks = <<>>
          /\ pc # "gather"
          /\ latest.gets <= 1
          /\ pc = "crashed" => latest.gets = 1
          /\ Gathered => (latest.gets = 1 /\ Len(responses) = 1)
    /\ Historical =>
          /\ pc # "latest"
          /\ latest.gets = 0
          /\ latest.status = NotYet

\* only the start date was given, and the latest fetch has returned
LatestOnlyWitness ==
    /\ Given(start_date) /\ ~Given(end_date)
    /\ pc = "done"
    /\ latest.gets = 1
    /\ Len(responses) = 1
    /\ tasks = <<>>

----------------------------------------------------------------------------
(* Properties of the record builder *)

\* the (currency, rate) pairs of a fetch result; none when it is absent
RatesOf(response) ==
    IF response.kind = "json" /\ "rates" \in response.fields
    THEN response.rates ELSE <<>>

\* the number of pairs in the first k responses
RECURSIVE PairCount(_)
PairCount(k) == IF k = 0 THEN 0 ELSE PairCount(k - 1) + Len(RatesOf(responses[k]))

\* Saturday or Sunday, counted from FirstDay, which is a Thursday
IsSaturdayOrSunday(date) == (strptime(date) - FirstDay) % 7 \in {2, 3}

\* C9: after the builder has processed k responses, all_data holds, for each
\* of them in turn, one row per (currency, rate) pair of its rates mapping
\* and none for an absent result (so the row count is the sum of the
\* mapping sizes); the rows of one response agree on date, day_of_week,
\* is_weekend, base_currency and retrieval_time; and is_weekend is true
\* exactly when the row's date is a Saturday or a Sunday.
RowsPerRatePair ==
    (pc \in {"build", "save", "write", "done", "no_data"}) =>
        /\ Len(all_data) = PairCount(ri)
        /\ \A k \in 1..ri :
              LET rates == RatesOf(responses[k])
                  rows  == SubSeq(all_data, PairCount(k - 1) + 1, PairCount(k))
              IN  \A n \in DOMAIN rates :
                    /\ rows[n].currency = rates[n][1]
                    /\ rows[n].exchange_rate = rates[n][2]
                    /\ rows[n].date = rows[1].date
                    /\ rows[n].day_of_week = rows[1].day_of_week
                    /\ rows[n].is_weekend = rows[1].is_weekend
                    /\ rows[n].base_currency = rows[1].base_currency
                    /\ rows[n].retrieval_time = rows[1].retrieval_time
                    /\ rows[n].is_weekend = IsSaturdayOrSunday(rows[n].date)
                    /\ rows[n].is_weekend =
                          (rows[n].day_of_week \in {"Saturday", "Sunday"})

\* an absent result, then the two rows of a Saturday's full body
WeekendRowsWitness ==
    /\ pc = "done"
    /\ Len(responses) = 2
    /\ responses[1] = NoData
    /\ Len(all_data) = 2
    /\ all_data[1].currency = "EUR" /\ all_data[2].currency = "GBP"
    /\ all_data[1].day_of_week = "Saturday"
    /\ all_data[1].is_weekend /\ all_data[2].is_weekend

----------------------------------------------------------------------------
(* Properties of the partitioned writer *)

\* the (year, month) keys occurring in a frame
KeysIn(frame) == {<<frame[k].year, frame[k].month>> : k \in DOMAIN frame}

\* <save_path>/year=<Y>/month=<M>/exchange_rates.parquet
ExpectedFile(key) ==
    save_path \o << "year=" \o ToString(key[1]), "month=" \o ToString(key[2]),
                   "exchange_rates.parquet" >>

\* how many rows of a sequence equal r
Count(rows, r) == Cardinality({k \in DOMAIN rows : rows[k] = r})

\* C10: when save_to_parquet has returned, it has written one file for each
\* (year, month) key of the frame and no other, each once, at
\* <save_path>/year=<Y>/month=<M>/exchange_rates.parquet; the file of a key
\* holds rows of that key only, and holds every row of the frame with that
\* key as many times as the frame does.
OneFilePerPartition ==
    (pc = "idle") =>
        /\ {written[k] : k \in DOMAIN written}
              = {ExpectedFile(key) : key \in KeysIn(df)}
        /\ Len(written) = Cardinality(KeysIn(df))
        /\ \A key \in KeysIn(df) :
              /\ ExpectedFile(key) \in DOMAIN files
              /\ \A n \in DOMAIN files[ExpectedFile(key)] :
                    LET row == files[ExpectedFile(key)][n] IN
                    /\ <<row.year, row.month>> = key
                    /\ Count(files[ExpectedFile(key)], row) = Count(df, row)
              /\ \A k \in DOMAIN df :
                    <<df[k].year, df[k].month>> = key
                        => Count(files[ExpectedFile(key)], df[k]) = Count(df, df[k])

\* a frame of two rows of different months has been written to two files
TwoPartitionsWitness ==
    /\ pc = "idle"
    /\ Len(df) = 2
    /\ df[1].month = 3 /\ df[2].month = 2
    /\ Len(written) = 2
    /\ files[ExpectedFile(<<2024, 3>>)] = << df[1] >>
    /\ files[ExpectedFile(<<2024, 2>>)] = << df[2] >>

\* C11: whenever save_to_parquet has returned, every partition file holds
\* exactly the rows its key had in the most recent call whose frame held
\* that key (so a repeated call leaves the files as they were); no step
\* removes a file, and a step changes a file only by replacing the file of
\* the group being written with that group's rows of the current frame.
OverwriteNotAppend ==
    /\ []((caller = "writer" /\ pc = "idle") => files = given)
    /\ [][\A p \in DOMAIN files :
            /\ p \in DOMAIN files'
            /\ files'[p] # files[p] =>
                  /\ pc = "write" /\ groups # <<>>
                  /\ p = ExpectedFile(Head(groups))
                  /\ files'[p] = SelectSeq(df, LAMBDA row :
                                     <<row.year, row.month>> = Head(groups))]_vars

\* a call has written its 2024-02 group and is about to replace the 2024-03
\* file, which holds the two rows an earlier call gave it, by one row
OverwriteWitness ==
    /\ caller = "writer"
    /\ pc = "write"
    /\ Len(df) = 2
    /\ written = << ExpectedFile(<<2024, 2>>) >>
    /\ groups = << <<2024, 3>> >>
    /\ ExpectedFile(<<2024, 3>>) \in DOMAIN files
    /\ Len(files[ExpectedFile(<<2024, 3>>)]) = 2
    /\ Len(given[ExpectedFile(<<2024, 3>>)]) = 1

\* the steps of a save_to_parquet call on an empty frame
EmptyCallStep == df = <<>> /\ pc \in {"save", "write"}

\* C12 as stated: a call on an empty frame writes no file and creates no
\* directory.
EmptyFrameCreatesNothing ==
    [][EmptyCallStep => (files' = files /\ dirs' = dirs)]_vars

\* C12, amended: a call on an empty frame writes no file and creates no
\* partition directory; the directories it makes sure exist are save_path
\* and the parents of save_path, and no other.
EmptyFrameCreatesRootOnly ==
    [][EmptyCallStep =>
          /\ files' = files
          /\ written' = <<>>
          /\ groups' = <<>>
          /\ dirs' \in {dirs,
                         dirs \cup {SubSeq(save_path, 1, k) :
                                        k \in 1..Len(save_path)}}
          /\ pc = "save" =>
                \A k \in 1..Len(save_path) : SubSeq(save_path, 1, k) \in dirs']_vars

\* the first call was given an empty frame: it has returned, and save_path
\* and its parent exist, with no file
EmptyFrameWitness ==
    /\ caller = "writer"
    /\ pc = "idle"
    /\ df = <<>>
    /\ files = <<>>
    /\ dirs = { <<"data">>, <<"data", "fx">> }

----------------------------------------------------------------------------
(* Properties of a run that retrieves nothing *)

\* every fetch has returned, and none of the results holds a rate
NothingRetrieved == Gathered /\ PairCount(Len(responses)) = 0

\* C13: in a run whose fetches all returned no-data or a payload without
\* rates, the writer is never called: main() stays in the builder until it
\* logs the warning, no file and no directory ever exists, the only step
\* left after the last response is the warning, and main() ends there,
\* never in a crash.
NoDataNeverWrites ==
    /\ [](NothingRetrieved =>
            /\ pc \in {"build", "no_data"}
            /\ all_data = <<>>
            /\ df = <<>>
            /\ dirs = {}
            /\ files = <<>>
            /\ written = <<>>
            /\ (pc = "build" /\ ri = Len(responses)) => ENABLED WarnNoData)
    /\ [][(NothingRetrieved /\ pc' # pc) => pc' = "no_data"]_vars

\* two dates: one fetch failed, the other returned a body without rates,
\* and the run ended with the warning
NoDataWitness ==
    /\ pc = "no_data"
    /\ Len(responses) = 2
    /\ responses[1] = NoData
    /\ responses[2] = Json({"base"}, "USD", 0, <<>>)
    /\ dirs = {}
    /\ files = <<>>

----------------------------------------------------------------------------
(* Properties of the row identifier *)

\* C14: the id of every row is the digest of the row's own date, currency
\* and rate, so two rows with the same date, currency and rate have the
\* same id whatever their retrieval_time and base_currency.
IdFromDateCurrencyRate ==
    /\ \A k \in DOMAIN all_data :
          all_data[k].id = [sha256 |-> << all_data[k].date, all_data[k].currency,
                                          all_data[k].exchange_rate >>]
    /\ \A j, k \in DOMAIN all_data :
          (/\ all_data[j].date = all_data[k].date
           /\ all_data[j].currency = all_data[k].currency
           /\ all_data[j].exchange_rate = all_data[k].exchange_rate)
              => all_data[j].id = all_data[k].id

\* two fetches gave the same rate for the same date and currency, the rows
\* were built at different times, and their ids are equal
SameIdWitness ==
    /\ Len(all_data) = 2
    /\ all_data[1].date = all_data[2].date
    /\ all_data[1].currency = all_data[2].currency
    /\ all_data[1].exchange_rate = all_data[2].exchange_rate
    /\ all_data[1].retrieval_time # all_data[2].retrieval_time
    /\ all_data[1].id = all_data[2].id

----------------------------------------------------------------------------
(* Properties of a 200 answer to fetch_exchange_rates *)

\* C15 as stated: every GET that receives a 200 is the last event of the
\* call, which has returned a body: no GET and no sleep follows it.
Every200EndsCall ==
    \A k \in DOMAIN log :
        (log[k].ev = "get" /\ log[k].http = 200) =>
            /\ k = Len(log)
            /\ tasks[1].tpc = "done"
            /\ tasks[1].result \in Bodies(strptime(tasks[1].date))

\* C15, amended: a GET that receives a 200 whose body is read as JSON is
\* the last event of the call, which has returned one of the bodies the
\* API sends; a 200 whose body cannot be read is followed by the backoff
\* sleep of its attempt, like any exception.
Parsed200EndsCall ==
    \A k \in DOMAIN log :
        (log[k].ev = "get" /\ log[k].http = 200) =>
            IF log[k].n = 200
            THEN /\ k = Len(log)
                 /\ tasks[1].tpc = "done"
                 /\ tasks[1].result \in Bodies(strptime(tasks[1].date))
                 /\ Len(Gets) = log[k].attempt + 1
                 /\ Len(Sleeps) = log[k].attempt
            ELSE /\ log[k].n = Exception
                 /\ k < Len(log)
                 /\ log[k + 1] = SleepEvent(log[k].attempt,
                                            Min(Pow(2, log[k].attempt), 60))

\* a 200 with an unreadable body, its sleep, then a 200 whose body is
\* returned
Parsed200Witness ==
    /\ Len(log) = 3
    /\ log[1] = RaisedEvent(0, 200)
    /\ log[2] = SleepEvent(0, 1)
    /\ log[3] = GetEvent(1, 200)
    /\ tasks[1].tpc = "done"
    /\ tasks[1].result = FullBody(strptime(tasks[1].date))

----------------------------------------------------------------------------
(* Properties of the record date *)

\* C16: the rows built from a response that has a timestamp field carry the
\* calendar date of that timestamp, whatever its value (0 included); the
\* rows of a response without the field carry the date of one of the
\* instants the clock is read at; and year and month are those of the
\* row's date.
DateFromTimestamp ==
    (pc \in {"build", "save", "write", "done", "no_data"}) =>
        \A k \in 1..ri :
            LET response == responses[k]
                rows     == SubSeq(all_data, PairCount(k - 1) + 1, PairCount(k))
            IN  \A n \in DOMAIN rows :
                    /\ IF "timestamp" \in response.fields
                       THEN rows[n].date = utcfromtimestamp(response.timestamp)
                       ELSE rows[n].date \in {utcfromtimestamp(t) : t \in Instants}
                    /\ rows[n].year = rows[n].date.y
                    /\ rows[n].month = rows[n].date.m

----------------------------------------------------------------------------
(* Properties of the order of fetches and writes *)

\* the files a step creates or replaces
FilesTouched ==
    {p \in DOMAIN files' : p \notin DOMAIN files \/ files'[p] # files[p]}

\* every fetch of the run is over: each coroutine has returned, and in
\* latest-only mode the single GET has been answered
FetchesOver ==
    /\ \A i \in DOMAIN tasks : tasks[i].tpc = "done"
    /\ Historical \/ latest.status # NotYet

\* C17: a step that creates a directory or writes a file is a step of the
\* writer, taken when every fetch of the run is over, and it writes at most
\* one file; and from the call of the writer on, no fetch takes a step.
WritesAfterFetches ==
    /\ [][(dirs' # dirs \/ files' # files) =>
            /\ FetchesOver
            /\ pc \in {"save", "write"}
            /\ Cardinality(FilesTouched) <= 1]_vars
    /\ [][(pc \in {"save", "write", "done"}) =>
            (tasks' = tasks /\ latest' = latest /\ responses' = responses)]_vars

\* a run over two dates that has written two partitions, one after the other
TwoWritesWitness ==
    /\ pc = "done"
    /\ Len(tasks) = 2
    /\ \A i \in DOMAIN tasks : tasks[i].tpc = "done"
    /\ Len(written) = 2
    /\ written[1] # written[2]
    /\ DOMAIN files = {written[1], written[2]}

----------------------------------------------------------------------------
(* Properties of an exhausted retry budget *)

\* the GETs of the history that ended in a 429 or an exception
RetryableGets == SelectSeq(Gets, LAMBDA e : Retryable(e.n))

\* C18: there are as many sleeps as GETs that ended in a 429 or an
\* exception; the sleep of attempt k lasts min(2^k, 60) seconds; and a call
\* with retries >= 1 that has returned after nothing but such GETs has
\* issued exactly `retries` GETs and slept exactly `retries` times, for
\* min(2^k, 60) seconds with k = 0 .. retries - 1 in turn, the last event
\* before it returned no-data being the sleep of its last attempt.
SleepAfterEveryRetryable ==
    /\ Len(Sleeps) = Len(RetryableGets)
    /\ \A j \in DOMAIN Sleeps :
          Sleeps[j].n = Min(Pow(2, Sleeps[j].attempt), 60)
    /\ (/\ tasks[1].retries >= 1
        /\ tasks[1].tpc = "done"
        /\ Len(RetryableGets) = Len(Gets))
          => /\ Len(Gets) = tasks[1].retries
             /\ Len(Sleeps) = tasks[1].retries
             /\ \A j \in DOMAIN Sleeps :
                   Sleeps[j] = SleepEvent(j - 1, Min(Pow(2, j - 1), 60))
             /\ log[Len(log)] = Sleeps[tasks[1].retries]
             /\ tasks[1].result = NoData

\* the largest budget used up: the last of its sleeps is capped at 60
\* seconds and nothing follows it but the return of no-data
LastSleepWitness ==
    /\ tasks[1].retries = MaxRetries
    /\ tasks[1].tpc = "done"
    /\ tasks[1].result = NoData
    /\ Len(Sleeps) = MaxRetries
    /\ log[Len(log)] = SleepEvent(MaxRetries - 1, 60)

----------------------------------------------------------------------------
(* Properties of a reversed date range *)

\* both dates are given and end_date is earlier than start_date
ReversedRange == Historical /\ strptime(end_date) < strptime(start_date)

\* C19: in a run whose end_date is earlier than its start_date no fetch
\* coroutine exists and no latest GET is made, so no GET is issued; the
\* gathered responses list is empty, no row is built, the writer is never
\* called and no file or directory exists.
ReversedRangeFetchesNothing ==
    ReversedRange =>
        /\ tasks = <<>>
        /\ completed = <<>>
        /\ latest = [gets |-> 0, status |-> NotYet, result |-> NoData]
        /\ pc \in {"main", "gather", "build", "no_data"}
        /\ responses = <<>>
        /\ all_data = <<>>
        /\ df = <<>>
        /\ dirs = {}
        /\ files = <<>>

\* a run from the second day back to the first that has ended with the
\* warning
ReversedRangeWitness ==
    /\ strptime(start_date) = FirstDay + 1
    /\ strptime(end_date) = FirstDay
    /\ pc = "no_data"
    /\ ri = 0

----------------------------------------------------------------------------
(* Properties of a latest fetch that raises *)

====
